---------------------------- MODULE Spec2Model ----------------------------
(***************************************************************************)
(* A model of the fgbio BAM MCP server: the FgbioWrapper (availability     *)
(* check, path validation, command building, process running, SortBam)     *)
(* and the two request handlers sort_bam and filter_bam with the shared,   *)
(* lazily initialised wrapper handle.                                      *)
(*                                                                         *)
(* Strings are sequences of fragments.  A fragment is a TLA+ string that   *)
(* is either one special character (" ", "_", "-", "/", "'") or a run of   *)
(* text without those characters.  The string operations of the code       *)
(* (strip, replace, str, shlex.quote, Path.parent, the "in" test) are      *)
(* computed on that representation.                                        *)
(***************************************************************************)
EXTENDS Integers, Sequences, FiniteSets, TLC

VARIABLES
    fs,             \* the filesystem: path -> "absent" | "file" | "dir" | "other"
    vcall,          \* the last _validate_file_path call and its outcome (SpecPath)
    bld,            \* one _build_command call: its loop state (SpecBuild)
    acall,          \* one _validate_fgbio_available call and its outcome (SpecAvail)
    phase,          \* the process: "boot" | "startup" | "serving" | "aborted"
    entry,          \* how the module came to serve: "none" | "main" | "import"
    handle,         \* the global fgbio_wrapper: "None" | "set"
    th,             \* per caller: the request in progress and where it stands
    versionSpawns,  \* availability checks attempted so far in this process
    calls           \* requests dispatched so far

pureVars == <<vcall, bld, acall>>
serverVars == <<phase, entry, handle, th, versionSpawns, calls>>
vars == <<fs, vcall, bld, acall, phase, entry, handle, th, versionSpawns, calls>>

----------------------------------------------------------------------------
(* Strings and optional values *)

Str(s) == <<s>>

None == [some |-> FALSE, v |-> <<>>]
Some(x) == [some |-> TRUE, v |-> x]
NoneInt == [some |-> FALSE, v |-> 0]

RECURSIVE LastIndexOf(_, _)
LastIndexOf(s, c) ==
    IF Len(s) = 0 THEN 0
    ELSE IF s[Len(s)] = c THEN Len(s)
    ELSE LastIndexOf(SubSeq(s, 1, Len(s) - 1), c)

\* s contains sub as a contiguous run (Python's "sub in s")
Contains(s, sub) ==
    \E i \in 0..(Len(s) - Len(sub)) : SubSeq(s, i + 1, i + Len(sub)) = sub

RECURSIVE StripLeft(_)
StripLeft(s) == IF Len(s) > 0 /\ Head(s) = " " THEN StripLeft(Tail(s)) ELSE s

RECURSIVE StripRight(_)
StripRight(s) ==
    IF Len(s) > 0 /\ s[Len(s)] = " "
    THEN StripRight(SubSeq(s, 1, Len(s) - 1)) ELSE s

\* str.strip()
Strip(s) == StripRight(StripLeft(s))

RECURSIVE ReplaceQuotes(_)
ReplaceQuotes(s) ==
    IF Len(s) = 0 THEN <<>>
    ELSE (IF Head(s) = "'" THEN <<"'", "\"", "'", "\"", "'">> ELSE <<Head(s)>>)
         \o ReplaceQuotes(Tail(s))

\* the fragments shlex.quote does not leave bare
UnsafeFragments == {" ", "'", "\""}

\* shlex.quote(s)
ShlexQuote(s) ==
    IF Len(s) = 0 THEN <<"'", "'">>
    ELSE IF \A i \in 1..Len(s) : s[i] \notin UnsafeFragments THEN s
    ELSE <<"'">> \o ReplaceQuotes(s) \o <<"'">>

\* ' '.join(shlex.quote(str(c)) for c in cmd)
RECURSIVE JoinQuoted(_)
JoinQuoted(cmd) ==
    IF Len(cmd) = 0 THEN <<>>
    ELSE IF Len(cmd) = 1 THEN ShlexQuote(cmd[1])
    ELSE ShlexQuote(cmd[1]) \o <<" ">> \o JoinQuoted(Tail(cmd))

----------------------------------------------------------------------------
(* The filesystem as pathlib sees it *)

Dot == Str(".")

PathOf(dir, name) == <<dir, "/", name>>

\* Path(p).parent: what precedes the last separator; "." for a bare name
Parent(p) ==
    LET i == LastIndexOf(p, "/")
    IN  IF i = 0 THEN Dot ELSE SubSeq(p, 1, i - 1)

KindOf(f, p) ==
    IF p = Dot THEN "dir"
    ELSE IF p \in DOMAIN f THEN f[p] ELSE "absent"

\* Path.exists()
PathExists(f, p) == KindOf(f, p) # "absent"

\* Path.is_file()
PathIsFile(f, p) == KindOf(f, p) = "file"

\* _validate_file_path with the existence test dropped for output paths' parents
ValidateFilePathNoParentCheck(f, file_path, must_exist) ==
    IF must_exist /\ ~PathExists(f, file_path)
    THEN [ok |-> FALSE, err |-> <<"File does not exist: ">> \o file_path]
    ELSE IF must_exist /\ ~PathIsFile(f, file_path)
    THEN [ok |-> FALSE, err |-> <<"Path is not a file: ">> \o file_path]
    ELSE [ok |-> TRUE, err |-> <<>>]

\* _validate_file_path accepting whatever exists (the is_file test dropped)
ValidateFilePathNoFileCheck(f, file_path, must_exist) ==
    IF must_exist /\ ~PathExists(f, file_path)
    THEN [ok |-> FALSE, err |-> <<"File does not exist: ">> \o file_path]
    ELSE IF ~must_exist /\ ~PathExists(f, Parent(file_path))
    THEN [ok |-> FALSE,
          err |-> <<"Output directory does not exist: ">> \o Parent(file_path)]
    ELSE [ok |-> TRUE, err |-> <<>>]

\* FgbioWrapper._validate_file_path: ok, or the FgbioError's message
ValidateFilePath(f, file_path, must_exist) ==
    IF must_exist /\ ~PathExists(f, file_path)
    THEN [ok |-> FALSE, err |-> <<"File does not exist: ">> \o file_path]
    ELSE IF must_exist /\ ~PathIsFile(f, file_path)
    THEN [ok |-> FALSE, err |-> <<"Path is not a file: ">> \o file_path]
    ELSE IF ~must_exist /\ ~PathExists(f, Parent(file_path))
    THEN [ok |-> FALSE,
          err |-> <<"Output directory does not exist: ">> \o Parent(file_path)]
    ELSE [ok |-> TRUE, err |-> <<>>]

----------------------------------------------------------------------------
(* Parameter values and FgbioWrapper._build_command *)

\* a Python value of a parameter mapping: t is its type
VNone == [t |-> "none", b |-> FALSE, n |-> 0, s |-> <<>>, items |-> <<>>]
VBool(x) == [t |-> "bool", b |-> x, n |-> 0, s |-> <<>>, items |-> <<>>]
VInt(x) == [t |-> "int", b |-> FALSE, n |-> x, s |-> <<>>, items |-> <<>>]
VStr(x) == [t |-> "str", b |-> FALSE, n |-> 0, s |-> x, items |-> <<>>]
VList(x) == [t |-> "list", b |-> FALSE, n |-> 0, s |-> <<>>, items |-> x]

\* str(value) of a scalar
PyStr(v) ==
    CASE v.t = "str" -> v.s
      [] v.t = "int" -> <<ToString(v.n)>>
      [] v.t = "bool" -> <<IF v.b THEN "True" ELSE "False">>
      [] OTHER -> <<"None">>

\* key.replace('_', '-')
ReplaceUnderscores(key) ==
    [i \in 1..Len(key) |-> IF key[i] = "_" THEN "-" ELSE key[i]]

\* f"--{param_name}"
Flag(key) == <<"-", "-">> \o ReplaceUnderscores(key)

RECURSIVE ListArgs(_, _)
ListArgs(flag, items) ==
    IF Len(items) = 0 THEN <<>>
    ELSE <<flag, PyStr(Head(items))>> \o ListArgs(flag, Tail(items))

\* the loop body with the truth of the value tested instead of its type
ParamArgsByTruth(key, value) ==
    IF value.t = "none" THEN <<>>
    ELSE IF value.t = "bool" \/ (value.t = "int" /\ value.n \in {0, 1})
    THEN IF value.b \/ value.n = 1 THEN <<Flag(key)>> ELSE <<>>
    ELSE IF value.t = "list" THEN ListArgs(Flag(key), value.items)
    ELSE <<Flag(key), PyStr(value)>>

\* what one iteration of the loop of _build_command appends for (key, value)
ParamArgs(key, value) ==
    IF value.t = "none" THEN <<>>
    ELSE IF value.t = "bool"
    THEN IF value.b THEN <<Flag(key)>> ELSE <<>>
    ELSE IF value.t = "list" THEN ListArgs(Flag(key), value.items)
    ELSE <<Flag(key), PyStr(value)>>

FgbioCommand == Str("fgbio")

RECURSIVE AppendParams(_, _)
AppendParams(cmd, params) ==
    IF Len(params) = 0 THEN cmd
    ELSE AppendParams(cmd \o ParamArgs(Head(params).key, Head(params).value),
                      Tail(params))

\* FgbioWrapper._build_command; params is the mapping in its key order
BuildCommand(tool_name, params) ==
    AppendParams(<<FgbioCommand, tool_name>>, params)

----------------------------------------------------------------------------
(* Requests: the pydantic models SortBamRequest and FilterBamRequest.  A   *)
(* raw request is what the RPC layer received; constructing the model      *)
(* validates it and yields the request the handler is called with.         *)

SortOrders == {Str("coordinate"), Str("queryname"), Str("random"),
               Str("unsorted")}

\* validate_paths testing "if not v" alone
PathFieldOkUnstripped(v) == Len(v) > 0

\* validate_paths: "if not v or not v.strip()" rejects
PathFieldOk(v) == Len(v) > 0 /\ Len(Strip(v)) > 0

\* validate_temp_dir / validate_optional_paths: None passes, blank is rejected
OptionalPathOk(o) == o.some => Len(Strip(o.v)) > 0

OptionalPathValue(o) == IF o.some THEN Some(Strip(o.v)) ELSE None

\* Field(ge=0) in place of Field(gt=0)
OptionalNonNegative(o) == o.some => o.v >= 0

\* Field(gt=0) on an Optional[int]
OptionalPositive(o) == o.some => o.v > 0

\* SortBamRequest(**raw) succeeds
SortRequestValid(raw) ==
    /\ PathFieldOk(raw.input_bam)
    /\ PathFieldOk(raw.output_bam)
    /\ raw.sort_order \in SortOrders
    /\ OptionalPathOk(raw.temp_dir)
    /\ OptionalPositive(raw.max_records_in_ram)

\* the constructed SortBamRequest
SortRequestOf(raw) ==
    [input_bam |-> Strip(raw.input_bam),
     output_bam |-> Strip(raw.output_bam),
     sort_order |-> raw.sort_order,
     temp_dir |-> OptionalPathValue(raw.temp_dir),
     max_records_in_ram |-> raw.max_records_in_ram]

\* validate_insert_sizes letting equal sizes through
MaxInsertSizeOkNonStrict(raw) ==
    raw.max_insert_size.some =>
        /\ raw.max_insert_size.v > 0
        /\ (OptionalPositive(raw.min_insert_size) /\ raw.min_insert_size.some)
               => ~(raw.max_insert_size.v < raw.min_insert_size.v)

\* validate_insert_sizes: runs once max_insert_size passed gt=0; min_insert_size
\* is in info.data only if it passed its own validation
MaxInsertSizeOk(raw) ==
    raw.max_insert_size.some =>
        /\ raw.max_insert_size.v > 0
        /\ (OptionalPositive(raw.min_insert_size) /\ raw.min_insert_size.some)
               => ~(raw.max_insert_size.v <= raw.min_insert_size.v)

\* FilterBamRequest(**raw) succeeds
FilterRequestValid(raw) ==
    /\ PathFieldOk(raw.input_bam)
    /\ PathFieldOk(raw.output_bam)
    /\ OptionalPathOk(raw.rejects)
    /\ OptionalPathOk(raw.intervals)
    /\ raw.min_map_q >= 0
    /\ OptionalPositive(raw.min_insert_size)
    /\ MaxInsertSizeOk(raw)
    /\ OptionalPositive(raw.min_mapped_bases)

\* the constructed FilterBamRequest
FilterRequestOf(raw) ==
    [raw EXCEPT !.input_bam = Strip(raw.input_bam),
                !.output_bam = Strip(raw.output_bam),
                !.rejects = OptionalPathValue(raw.rejects),
                !.intervals = OptionalPathValue(raw.intervals)]

RequestValid(op, raw) ==
    IF op = "sort_bam" THEN SortRequestValid(raw) ELSE FilterRequestValid(raw)

RequestOf(op, raw) ==
    IF op = "sort_bam" THEN SortRequestOf(raw) ELSE FilterRequestOf(raw)

----------------------------------------------------------------------------
(* Exceptions, FgbioWrapper.run_command and FgbioWrapper.sort_bam *)

Exc(type, msg) == [type |-> type, msg |-> msg]
NoExc == Exc("none", <<>>)

\* what the operating system made of one subprocess.run
SpawnError(msg) == [kind |-> "spawn_error", rc |-> 0, stdout |-> <<>>,
                    stderr |-> msg, wrote |-> FALSE]
TimedOut == [kind |-> "timeout", rc |-> 0, stdout |-> <<>>, stderr |-> <<>>,
             wrote |-> FALSE]
Exited(rc, out, err, wrote) ==
    [kind |-> "exit", rc |-> rc, stdout |-> out, stderr |-> err, wrote |-> wrote]

NoResult == [success |-> FALSE, stdout |-> <<>>, stderr |-> <<>>,
             return_code |-> 0, command |-> <<>>]

\* f"fgbio {tool_name} failed with return code {result.returncode}: {result.stderr}"
ExitMessage(tool_name, proc) ==
    <<"fgbio", " ">> \o tool_name \o <<" ", "failed with return code", " ",
      ToString(proc.rc), ": ">> \o proc.stderr

\* f"Failed to execute fgbio {tool_name}: {str(e)}"
FailedToExecute(tool_name, msg) ==
    <<"Failed to execute fgbio", " ">> \o tool_name \o <<": ">> \o msg

\* f"fgbio {tool_name} command timed out after 1 hour"
TimeoutMessage(tool_name) ==
    <<"fgbio", " ">> \o tool_name \o <<" ", "command timed out after 1 hour">>

\* run_command that takes whatever the process returned for success
RunCommandIgnoringExit(tool_name, params, proc) ==
    IF proc.kind = "timeout"
    THEN [ok |-> FALSE, result |-> NoResult,
          exc |-> Exc("FgbioError", TimeoutMessage(tool_name))]
    ELSE IF proc.kind = "spawn_error"
    THEN [ok |-> FALSE, result |-> NoResult,
          exc |-> Exc("FgbioError", FailedToExecute(tool_name, proc.stderr))]
    ELSE [ok |-> TRUE,
          result |-> [success |-> TRUE, stdout |-> proc.stdout,
                      stderr |-> proc.stderr, return_code |-> proc.rc,
                      command |-> JoinQuoted(BuildCommand(tool_name, params))],
          exc |-> NoExc]

\* FgbioWrapper.run_command once subprocess.run has returned or raised: the
\* FgbioError of a non-zero exit is raised inside the try and so is caught
\* by "except Exception" and wrapped
RunCommand(tool_name, params, proc) ==
    IF proc.kind = "timeout"
    THEN [ok |-> FALSE, result |-> NoResult,
          exc |-> Exc("FgbioError", TimeoutMessage(tool_name))]
    ELSE IF proc.kind = "spawn_error"
    THEN [ok |-> FALSE, result |-> NoResult,
          exc |-> Exc("FgbioError", FailedToExecute(tool_name, proc.stderr))]
    ELSE IF proc.rc # 0
    THEN [ok |-> FALSE, result |-> NoResult,
          exc |-> Exc("FgbioError",
                      FailedToExecute(tool_name, ExitMessage(tool_name, proc)))]
    ELSE [ok |-> TRUE,
          result |-> [success |-> TRUE, stdout |-> proc.stdout,
                      stderr |-> proc.stderr, return_code |-> proc.rc,
                      command |-> JoinQuoted(BuildCommand(tool_name, params))],
          exc |-> NoExc]

Param(key, value) == [key |-> key, value |-> value]

\* FgbioWrapper.sort_bam passing the temp directory under the request's field name
SortParamsTempDirKey(input_bam, output_bam, sort_order, temp_dir, max_records_in_ram) ==
    <<Param(Str("input"), VStr(input_bam)),
      Param(Str("output"), VStr(output_bam)),
      Param(<<"sort", "_", "order">>, VStr(sort_order))>>
    \o (IF temp_dir.some /\ Len(temp_dir.v) > 0
        THEN <<Param(<<"temp", "_", "dir">>, VStr(temp_dir.v))>> ELSE <<>>)
    \o (IF max_records_in_ram.some /\ max_records_in_ram.v # 0
        THEN <<Param(<<"max", "_", "records", "_", "in", "_", "ram">>,
                     VInt(max_records_in_ram.v))>>
        ELSE <<>>)

\* the params dict FgbioWrapper.sort_bam assembles, in insertion order
SortParams(input_bam, output_bam, sort_order, temp_dir, max_records_in_ram) ==
    <<Param(Str("input"), VStr(input_bam)),
      Param(Str("output"), VStr(output_bam)),
      Param(<<"sort", "_", "order">>, VStr(sort_order))>>
    \o (IF temp_dir.some /\ Len(temp_dir.v) > 0
        THEN <<Param(<<"tmp", "_", "dir">>, VStr(temp_dir.v))>> ELSE <<>>)
    \o (IF max_records_in_ram.some /\ max_records_in_ram.v # 0
        THEN <<Param(<<"max", "_", "records", "_", "in", "_", "ram">>,
                     VInt(max_records_in_ram.v))>>
        ELSE <<>>)

SortTool == Str("SortBam")

\* the two validations FgbioWrapper.sort_bam makes before run_command
SortPathCheck(f, req) ==
    LET i == ValidateFilePath(f, req.input_bam, TRUE)
        o == ValidateFilePath(f, req.output_bam, FALSE)
    IN  IF ~i.ok THEN i ELSE o

\* the methods class FgbioWrapper defines
WrapperMethods == {"__init__", "_validate_fgbio_available", "_validate_file_path",
                   "_build_command", "run_command", "sort_bam"}

\* str(AttributeError) of a method the wrapper does not have
NoAttribute(name) ==
    <<"'", "FgbioWrapper", "'", " ", "object has no attribute", " ", "'", name, "'">>

----------------------------------------------------------------------------
(* The availability check FgbioWrapper._validate_fgbio_available *)

VersionMarker == <<"Version:">>

Missing == [kind |-> "missing", rc |-> 0, stdout |-> <<>>, stderr |-> <<>>]
VersionTimeout == [kind |-> "timeout", rc |-> 0, stdout |-> <<>>, stderr |-> <<>>]
NotPermitted == [kind |-> "permission", rc |-> 0, stdout |-> <<>>, stderr |-> <<>>]
Ran(rc, out, err) == [kind |-> "ran", rc |-> rc, stdout |-> out, stderr |-> err]

\* result.stderr.strip() or result.stdout.strip()
VersionOutput(o) ==
    IF Len(Strip(o.stderr)) > 0 THEN Strip(o.stderr) ELSE Strip(o.stdout)

\* _validate_fgbio_available on what subprocess.run([fgbio, "--version"]) did:
\* ok, or the exception that leaves the constructor
ValidateFgbioAvailable(o) ==
    CASE o.kind = "missing" ->
            [ok |-> FALSE,
             exc |-> Exc("FgbioError",
                         <<"fgbio command not found: ">> \o FgbioCommand)]
      [] o.kind = "timeout" ->
            [ok |-> FALSE, exc |-> Exc("FgbioError", <<"fgbio command timed out">>)]
      [] o.kind = "permission" ->
            [ok |-> FALSE,
             exc |-> Exc("PermissionError",
                         <<"[Errno 13] Permission denied: ", "'">>
                         \o FgbioCommand \o <<"'">>)]
      [] OTHER ->
            IF Len(VersionOutput(o)) = 0 \/ ~Contains(VersionOutput(o), VersionMarker)
            THEN [ok |-> FALSE,
                  exc |-> Exc("FgbioError",
                              <<"fgbio command returned unexpected output: ">>
                              \o VersionOutput(o))]
            ELSE [ok |-> TRUE, exc |-> NoExc]

----------------------------------------------------------------------------
(* Responses and the handlers' except clauses *)

SortSuccess(req, result) ==
    [success |-> TRUE,
     message |-> <<"Successfully sorted BAM file with sort order ", "'">>
                 \o req.sort_order \o <<"'">>,
     input_file |-> req.input_bam,
     output_file |-> req.output_bam,
     sort_order |-> req.sort_order,
     command_executed |-> Some(result.command),
     stdout |-> Some(result.stdout),
     stderr |-> Some(result.stderr)]

SortFailure(req, message) ==
    [success |-> FALSE,
     message |-> message,
     input_file |-> req.input_bam,
     output_file |-> req.output_bam,
     sort_order |-> req.sort_order,
     command_executed |-> None,
     stdout |-> None,
     stderr |-> None]

\* the filters_applied dict of filter_bam, in insertion order
FiltersApplied(req) ==
    <<Param(<<"remove", "_", "duplicates">>, VBool(req.remove_duplicates)),
      Param(<<"remove", "_", "unmapped", "_", "reads">>,
            VBool(req.remove_unmapped_reads)),
      Param(<<"min", "_", "map", "_", "q">>, VInt(req.min_map_q)),
      Param(<<"remove", "_", "single", "_", "end", "_", "mappings">>,
            VBool(req.remove_single_end_mappings)),
      Param(<<"remove", "_", "secondary", "_", "alignments">>,
            VBool(req.remove_secondary_alignments))>>
    \o (IF req.min_insert_size.some
        THEN <<Param(<<"min", "_", "insert", "_", "size">>,
                     VInt(req.min_insert_size.v))>> ELSE <<>>)
    \o (IF req.max_insert_size.some
        THEN <<Param(<<"max", "_", "insert", "_", "size">>,
                     VInt(req.max_insert_size.v))>> ELSE <<>>)
    \o (IF req.min_mapped_bases.some
        THEN <<Param(<<"min", "_", "mapped", "_", "bases">>,
                     VInt(req.min_mapped_bases.v))>> ELSE <<>>)
    \o (IF req.intervals.some /\ Len(req.intervals.v) > 0
        THEN <<Param(<<"intervals", "_", "filter">>, VBool(TRUE))>> ELSE <<>>)

FilterFailure(req, message) ==
    [success |-> FALSE,
     message |-> message,
     input_file |-> req.input_bam,
     output_file |-> req.output_bam,
     rejects_file |-> req.rejects,
     intervals_file |-> req.intervals,
     filters_applied |-> <<>>,
     command_executed |-> None,
     stdout |-> None,
     stderr |-> None]

Failure(op, req, message) ==
    IF op = "sort_bam" THEN SortFailure(req, message)
    ELSE FilterFailure(req, message)

Returned(resp) == [raised |-> FALSE, exc |-> NoExc, resp |-> resp]
Escaped(e) == [raised |-> TRUE, exc |-> e, resp |-> <<>>]
Pending == [raised |-> FALSE, exc |-> NoExc, resp |-> <<>>]

\* a handler with "except FgbioError" alone
HandlerCatchFgbioOnly(op, req, e) ==
    IF e.type = "FgbioError"
    THEN Returned(Failure(op, req, <<"fgbio error: ">> \o e.msg))
    ELSE Escaped(e)

\* the except clauses of sort_bam and of filter_bam
HandlerCatch(op, req, e) ==
    IF e.type = "FgbioError"
    THEN Returned(Failure(op, req, <<"fgbio error: ">> \o e.msg))
    ELSE Returned(Failure(op, req, <<"Unexpected error: ">> \o e.msg))

\* a handler that takes the tool's exit code for the output's existence
OutputNeverMissing(f, output_bam) == FALSE

\* "if not output_path.exists()": the handler's test after the run
OutputMissing(f, output_bam) == ~PathExists(f, output_bam)

OutputNotCreated == Exc("FgbioError", <<"Output BAM file was not created">>)

----------------------------------------------------------------------------
(* The server's state: callers, the requests they send, the files they name *)

Callers == {"c1", "c2"}
MaxCalls == 2

NoProc == [kind |-> "none", rc |-> 0, stdout |-> <<>>, stderr |-> <<>>,
           wrote |-> FALSE]
NoRun == [ok |-> FALSE, result |-> NoResult, exc |-> NoExc]

\* a caller's record: pc is where its request stands, wrapper whether
\* get_fgbio_wrapper() returned to it, vq and tp count the version-query and
\* tool processes spawned for it, proc is what its subprocess.run did, run what
\* run_command made of it, out what left the handler
Call(pc, op, req) ==
    [pc |-> pc, op |-> op, req |-> req, wrapper |-> FALSE, vq |-> 0, tp |-> 0,
     params |-> <<>>, proc |-> NoProc, run |-> NoRun, out |-> Pending]

IdleCaller == Call("idle", "none", <<>>)

\* the server part of the state where only a pure function is exercised
ServerOff ==
    /\ phase = "boot"
    /\ entry = "none"
    /\ handle = "None"
    /\ th = [c \in Callers |-> IdleCaller]
    /\ versionSpawns = 0
    /\ calls = 0

DataDir == Str("data")
NoDir == Str("nodir")
InBam == PathOf("data", "in.bam")
MissingBam == PathOf("data", "missing.bam")
OutBam == PathOf("data", "out.bam")
NoDirOut == PathOf("nodir", "out.bam")
ServerPaths == {DataDir, NoDir, InBam, MissingBam, OutBam, NoDirOut}

\* data/ holds in.bam; out.bam may be there from an earlier run; nodir/ is absent
ServerFilesystems ==
    {[p \in ServerPaths |->
         CASE p = DataDir -> "dir"
           [] p = InBam -> "file"
           [] p = OutBam -> k
           [] OTHER -> "absent"] : k \in {"absent", "file"}}

RawInputs == {InBam, MissingBam, DataDir, <<" ">> \o InBam \o <<" ">>, <<>>, <<" ">>}
RawOutputs == {OutBam, NoDirOut, <<" ">>}

SortBase ==
    [input_bam |-> InBam, output_bam |-> OutBam, sort_order |-> Str("coordinate"),
     temp_dir |-> None, max_records_in_ram |-> NoneInt]

RawSortRequests ==
    {[SortBase EXCEPT !.input_bam = i] : i \in RawInputs}
    \cup {[SortBase EXCEPT !.output_bam = o] : o \in RawOutputs}
    \cup {[SortBase EXCEPT !.input_bam = MissingBam, !.output_bam = NoDirOut]}
    \cup {[SortBase EXCEPT !.sort_order = so] :
            so \in {Str("queryname"), Str("byname")}}
    \cup {[SortBase EXCEPT !.temp_dir = t] :
            t \in {Some(<<"my", " ", "tmp">>), Some(<<" ">>)}}
    \cup {[SortBase EXCEPT !.max_records_in_ram = m] : m \in {Some(0), Some(5)}}
    \cup {[SortBase EXCEPT !.sort_order = Str("queryname"),
                           !.temp_dir = Some(Str("tmp")),
                           !.max_records_in_ram = Some(5)]}

FilterBase ==
    [input_bam |-> InBam, output_bam |-> OutBam, rejects |-> None,
     intervals |-> None, remove_duplicates |-> TRUE,
     remove_unmapped_reads |-> TRUE, min_map_q |-> 1,
     remove_single_end_mappings |-> FALSE, remove_secondary_alignments |-> TRUE,
     min_insert_size |-> NoneInt, max_insert_size |-> NoneInt,
     min_mapped_bases |-> NoneInt]

InsertSizePairs ==
    {<<Some(200), Some(800)>>, <<Some(500), Some(500)>>, <<Some(800), Some(200)>>,
     <<NoneInt, Some(800)>>, <<Some(200), NoneInt>>, <<Some(0), NoneInt>>,
     <<Some(0), Some(800)>>, <<NoneInt, Some(0)>>}

RawFilterRequests ==
    {[FilterBase EXCEPT !.input_bam = i] : i \in {InBam, MissingBam, <<>>}}
    \cup {[FilterBase EXCEPT !.output_bam = NoDirOut]}
    \cup {[FilterBase EXCEPT !.remove_duplicates = FALSE]}
    \cup {[FilterBase EXCEPT !.intervals = x] :
            x \in {Some(PathOf("data", "targets.bed")), Some(<<" ">>)}}
    \cup {[FilterBase EXCEPT !.rejects = Some(PathOf("data", "rejects.bam"))]}
    \cup {[FilterBase EXCEPT !.min_insert_size = pr[1], !.max_insert_size = pr[2]] :
            pr \in InsertSizePairs}
    \cup {[FilterBase EXCEPT !.min_mapped_bases = m] : m \in {Some(0), Some(30)}}
    \cup {[FilterBase EXCEPT !.min_map_q = q] : q \in {-1, 0}}

RawRequests(op) ==
    IF op = "sort_bam" THEN RawSortRequests ELSE RawFilterRequests

VersionText == <<"Version:", " ", "2.1.0">>

\* what "fgbio --version" can do: not found, hang, not executable, or run
VersionOutcomes ==
    {Missing, VersionTimeout, NotPermitted,
     Ran(1, <<>>, VersionText), Ran(0, VersionText, <<>>),
     Ran(0, VersionText, <<"WARNING: JAVA_OPTS ignored">>),
     Ran(0, <<>>, <<" ">>)}

\* what the SortBam process can do once started
ToolOutcomes ==
    {TimedOut}
    \cup {Exited(0, <<"sorted">>, <<"[SortBam] done">>, w) : w \in BOOLEAN}
    \cup {Exited(rc, <<>>, <<"[SortBam] bad input">>, FALSE) : rc \in {1, 2}}

\* why subprocess.run may raise before any process runs
SpawnErrors == {<<"[Errno 2] No such file or directory: ", "'", "fgbio", "'">>}

----------------------------------------------------------------------------
(* The path-validation specification: every filesystem over a small tree,  *)
(* every path of it validated both ways.                                   *)

TreeDirs == {Str("d1"), Str("d2")}
TreeFiles == {PathOf("d1", "a.bam"), PathOf("d2", "b.bam")}
TreePaths == TreeDirs \cup TreeFiles
Kinds == {"absent", "file", "dir", "other"}

\* an entry exists only inside an existing directory
Consistent(f) ==
    \A p \in DOMAIN f : f[p] # "absent" => KindOf(f, Parent(p)) = "dir"

TreeFilesystems == {f \in [TreePaths -> Kinds] : Consistent(f)}

NoCall == [path |-> <<>>, must_exist |-> FALSE, ok |-> FALSE, err |-> <<>>,
           before |-> <<>>, done |-> FALSE]

NoAvail == [outcome |-> Missing, ok |-> FALSE, exc |-> NoExc, pc |-> "off"]

NoBuild == [params |-> <<>>, i |-> 0, cmd |-> <<>>, tool |-> <<>>, pc |-> "off"]

InitPath ==
    /\ fs \in TreeFilesystems
    /\ vcall = NoCall
    /\ bld = NoBuild
    /\ acall = NoAvail
    /\ ServerOff

\* one call of _validate_file_path(p, must_exist) on the current filesystem
ValidateCall(p, must_exist) ==
    /\ LET r == ValidateFilePath(fs, p, must_exist)
       IN  vcall' = [path |-> p, must_exist |-> must_exist, ok |-> r.ok,
                     err |-> r.err, before |-> fs, done |-> TRUE]
    /\ UNCHANGED <<fs, bld, acall, serverVars>>

NextPath == \E p \in TreePaths, m \in BOOLEAN : ValidateCall(p, m)

SpecPath == InitPath /\ [][NextPath]_vars

----------------------------------------------------------------------------
(* The command-building specification: _build_command run key by key on    *)
(* every mapping of up to MaxParams keys.                                  *)

MaxParams == 2
MaxListLen == 2

BuildKeys == {Str("input"), <<"sort", "_", "order">>,
              <<"max", "_", "records", "_", "in", "_", "ram">>}
BuildScalars == {VBool(TRUE), VBool(FALSE), VInt(0), VInt(1),
                 VStr(Str("queryname"))}
BuildItems == {VInt(1), VStr(Str("chr1"))}
BuildLists ==
    {VList(l) : l \in UNION {[1..k -> BuildItems] : k \in 0..MaxListLen}}
BuildValues == {VNone} \cup BuildScalars \cup BuildLists
BuildTools == {Str("SortBam")}

\* the mappings: sequences of (key, value) with distinct keys
BuildMappings ==
    UNION {{m \in [1..k -> [key : BuildKeys, value : BuildValues]] :
               \A i, j \in 1..k : i # j => m[i].key # m[j].key}
           : k \in 0..MaxParams}

InitBuild ==
    /\ fs = [p \in TreePaths |-> "absent"]
    /\ vcall = NoCall
    /\ acall = NoAvail
    /\ ServerOff
    /\ \E m \in BuildMappings, tool \in BuildTools :
          bld = [params |-> m, i |-> 0, cmd |-> <<FgbioCommand, tool>>,
                 tool |-> tool, pc |-> "loop"]

\* one iteration of "for key, value in params.items()"
BuildIterate ==
    /\ bld.pc = "loop"
    /\ bld.i < Len(bld.params)
    /\ LET kv == bld.params[bld.i + 1]
       IN  bld' = [bld EXCEPT !.i = bld.i + 1,
                              !.cmd = bld.cmd \o ParamArgs(kv.key, kv.value)]
    /\ UNCHANGED <<fs, vcall, acall, serverVars>>

\* "return cmd"
BuildReturn ==
    /\ bld.pc = "loop"
    /\ bld.i = Len(bld.params)
    /\ bld' = [bld EXCEPT !.pc = "returned"]
    /\ UNCHANGED <<fs, vcall, acall, serverVars>>

NextBuild == BuildIterate \/ BuildReturn

SpecBuild == InitBuild /\ [][NextBuild]_vars

----------------------------------------------------------------------------
(* The availability specification: _validate_fgbio_available on everything *)
(* the version query can do.                                               *)

AvailStreams ==
    {<<>>, <<" ">>, VersionText, <<" ">> \o VersionText \o <<" ">>,
     <<"fgbio", " ", "Version:", " ", "2.1.0">>,
     <<"WARNING: JAVA_OPTS ignored">>, <<"usage: fgbio [tool]">>}

AvailOutcomes ==
    {Missing, VersionTimeout, NotPermitted}
    \cup {Ran(rc, out, err) : rc \in {0, 1}, out \in AvailStreams, err \in AvailStreams}

InitAvail ==
    /\ fs = [p \in TreePaths |-> "absent"]
    /\ vcall = NoCall
    /\ bld = NoBuild
    /\ ServerOff
    /\ \E o \in AvailOutcomes :
          acall = [outcome |-> o, ok |-> FALSE, exc |-> NoExc, pc |-> "called"]

\* _validate_fgbio_available returns or raises
AvailReturn ==
    /\ acall.pc = "called"
    /\ LET r == ValidateFgbioAvailable(acall.outcome)
       IN  acall' = [acall EXCEPT !.ok = r.ok, !.exc = r.exc, !.pc = "returned"]
    /\ UNCHANGED <<fs, vcall, bld, serverVars>>

NextAvail == AvailReturn

SpecAvail == InitAvail /\ [][NextAvail]_vars

----------------------------------------------------------------------------
(* The server: startup, and the handlers sort_bam and filter_bam run by     *)
(* concurrent callers.                                                      *)

Init ==
    /\ fs \in ServerFilesystems
    /\ vcall = NoCall
    /\ bld = NoBuild
    /\ acall = NoAvail
    /\ ServerOff

\* get_fgbio_wrapper: "if fgbio_wrapper is None"
NeedsConstruction(h) == h = "None"

\* main() up to get_fgbio_wrapper(): the handle is None, FgbioWrapper() spawns
\* the version query
MainStart ==
    /\ phase = "boot"
    /\ phase' = "startup"
    /\ entry' = "main"
    /\ versionSpawns' = versionSpawns + 1
    /\ UNCHANGED <<fs, pureVars, handle, th, calls>>

\* main() logging the failed check and calling mcp.run() all the same
MainAfterCheckSwallowed(r) == "serving"

\* main() after get_fgbio_wrapper(): mcp.run() is reached only if nothing was
\* raised; both except clauses re-raise
MainAfterCheck(r) == IF r.ok THEN "serving" ELSE "aborted"

\* main(): the version query ended; on success the handle is set and
\* mcp.run() serves, otherwise the error is raised out of main
MainVersionResult ==
    /\ phase = "startup"
    /\ \E o \in VersionOutcomes :
          LET r == ValidateFgbioAvailable(o)
          IN  /\ handle' = IF r.ok THEN "set" ELSE handle
              /\ phase' = MainAfterCheck(r)
    /\ UNCHANGED <<fs, pureVars, entry, th, versionSpawns, calls>>

\* the module is imported and its mcp object served without main()
ImportServe ==
    /\ phase = "boot"
    /\ phase' = "serving"
    /\ entry' = "import"
    /\ UNCHANGED <<fs, pureVars, handle, th, versionSpawns, calls>>

\* the RPC layer constructs the request model from what it received: a
\* ValidationError is raised there, a valid request enters the handler
Request(c, op, raw) ==
    /\ phase = "serving"
    /\ th[c].pc = "idle"
    /\ calls < MaxCalls
    /\ calls' = calls + 1
    /\ th' = [th EXCEPT ![c] =
                IF RequestValid(op, raw)
                THEN Call("entered", op, RequestOf(op, raw))
                ELSE [Call("rejected", op, raw) EXCEPT
                        !.out = Escaped(Exc("ValidationError", <<>>))]]
    /\ UNCHANGED <<fs, pureVars, phase, entry, handle, versionSpawns>>

\* the handler's get_fgbio_wrapper(): a set handle is returned, an unset one
\* starts FgbioWrapper(), whose version query is spawned
GetWrapper(c) ==
    /\ th[c].pc = "entered"
    /\ IF NeedsConstruction(handle)
       THEN /\ th' = [th EXCEPT ![c].pc = "constructing", ![c].vq = 1]
            /\ versionSpawns' = versionSpawns + 1
       ELSE /\ th' = [th EXCEPT ![c].pc = "have_wrapper", ![c].wrapper = TRUE]
            /\ versionSpawns' = versionSpawns
    /\ UNCHANGED <<fs, pureVars, phase, entry, handle, calls>>

\* the version query of a handler's FgbioWrapper() ended: the handle is
\* assigned, or the exception reaches the handler's except clauses
VersionResult(c) ==
    /\ th[c].pc = "constructing"
    /\ \E o \in VersionOutcomes :
          LET r == ValidateFgbioAvailable(o)
          IN  IF r.ok
              THEN /\ handle' = "set"
                   /\ th' = [th EXCEPT ![c].pc = "have_wrapper",
                                        ![c].wrapper = TRUE]
              ELSE /\ handle' = handle
                   /\ th' = [th EXCEPT
                               ![c].pc = "done",
                               ![c].out = HandlerCatch(th[c].op, th[c].req, r.exc)]
    /\ UNCHANGED <<fs, pureVars, phase, entry, versionSpawns, calls>>

\* wrapper.sort_bam up to subprocess.run: both paths validated, then the
\* SortBam process started (or subprocess.run raising at once)
SortBamStart(c) ==
    /\ th[c].pc = "have_wrapper"
    /\ th[c].op = "sort_bam"
    /\ LET req == th[c].req
           v == SortPathCheck(fs, req)
           params == SortParams(req.input_bam, req.output_bam, req.sort_order,
                                req.temp_dir, req.max_records_in_ram)
       IN  IF ~v.ok
           THEN th' = [th EXCEPT
                         ![c].pc = "done",
                         ![c].out = HandlerCatch("sort_bam", req,
                                                 Exc("FgbioError", v.err))]
           ELSE \/ th' = [th EXCEPT ![c].pc = "running", ![c].tp = 1,
                                     ![c].params = params]
                \/ \E msg \in SpawnErrors :
                      LET r == RunCommand(SortTool, params, SpawnError(msg))
                      IN  th' = [th EXCEPT
                                   ![c].pc = "done",
                                   ![c].params = params,
                                   ![c].proc = SpawnError(msg),
                                   ![c].run = r,
                                   ![c].out = HandlerCatch("sort_bam", req, r.exc)]
    /\ UNCHANGED <<fs, pureVars, phase, entry, handle, versionSpawns, calls>>

\* the SortBam process ended or timed out: run_command returns or raises
ToolExit(c) ==
    /\ th[c].pc = "running"
    /\ \E proc \in ToolOutcomes :
          LET req == th[c].req
              r == RunCommand(SortTool, th[c].params, proc)
          IN  /\ fs' = IF proc.wrote THEN [fs EXCEPT ![req.output_bam] = "file"]
                       ELSE fs
              /\ th' = [th EXCEPT
                          ![c].proc = proc,
                          ![c].run = r,
                          ![c].pc = IF r.ok THEN "exited" ELSE "done",
                          ![c].out = IF r.ok THEN Pending
                                     ELSE HandlerCatch("sort_bam", req, r.exc)]
    /\ UNCHANGED <<pureVars, phase, entry, handle, versionSpawns, calls>>

\* sort_bam after wrapper.sort_bam returned: the output is looked for and the
\* response built
SortBamFinish(c) ==
    /\ th[c].pc = "exited"
    /\ th' = [th EXCEPT
                ![c].pc = "done",
                ![c].out = IF OutputMissing(fs, th[c].req.output_bam)
                           THEN HandlerCatch("sort_bam", th[c].req, OutputNotCreated)
                           ELSE Returned(SortSuccess(th[c].req, th[c].run.result))]
    /\ UNCHANGED <<fs, pureVars, phase, entry, handle, versionSpawns, calls>>

\* filter_bam's "wrapper.filter_bam(...)": FgbioWrapper has no such method
FilterBamCall(c) ==
    /\ th[c].pc = "have_wrapper"
    /\ th[c].op = "filter_bam"
    /\ "filter_bam" \notin WrapperMethods
    /\ th' = [th EXCEPT
                ![c].pc = "done",
                ![c].out = HandlerCatch("filter_bam", th[c].req,
                                        Exc("AttributeError",
                                            NoAttribute("filter_bam")))]
    /\ UNCHANGED <<fs, pureVars, phase, entry, handle, versionSpawns, calls>>

\* the response (or the validation error) has gone back to the caller
Deliver(c) ==
    /\ th[c].pc \in {"done", "rejected"}
    /\ th' = [th EXCEPT ![c] = IdleCaller]
    /\ UNCHANGED <<fs, pureVars, phase, entry, handle, versionSpawns, calls>>

Next ==
    \/ MainStart
    \/ MainVersionResult
    \/ ImportServe
    \/ \E c \in Callers, op \in {"sort_bam", "filter_bam"} :
          \E raw \in RawRequests(op) : Request(c, op, raw)
    \/ \E c \in Callers : GetWrapper(c)
    \/ \E c \in Callers : VersionResult(c)
    \/ \E c \in Callers : SortBamStart(c)
    \/ \E c \in Callers : ToolExit(c)
    \/ \E c \in Callers : SortBamFinish(c)
    \/ \E c \in Callers : FilterBamCall(c)
    \/ \E c \in Callers : Deliver(c)

Spec == Init /\ [][Next]_vars

----------------------------------------------------------------------------
(* Properties *)

InHandler(c) == th[c].pc \notin {"idle", "rejected"}
Done(c) == th[c].pc = "done"
Answered(c) == Done(c) /\ ~th[c].out.raised

\* C1: every valid filter_bam request whose tool does not fail is answered
\* success=true with the filters_applied summary of the request's values.
C1_FilterSucceedsWithSummary ==
    \A c \in Callers :
        (/\ Done(c)
         /\ th[c].op = "filter_bam"
         /\ th[c].wrapper
         /\ PathIsFile(fs, th[c].req.input_bam)
         /\ PathExists(fs, Parent(th[c].req.output_bam))
         /\ th[c].proc.kind = "none")
        => /\ ~th[c].out.raised
           /\ th[c].out.resp.success
           /\ th[c].out.resp.filters_applied = FiltersApplied(th[c].req)

\* the flag the claim names: "--" and the key with '_' replaced by '-'
C2_Flag(key) ==
    <<"-", "-">> \o [i \in 1..Len(key) |-> IF key[i] = "_" THEN "-" ELSE key[i]]

\* str(value) as the claim uses it
C2_Text(v) ==
    CASE v.t = "int" /\ v.n = 0 -> <<"0">>
      [] v.t = "int" /\ v.n = 1 -> <<"1">>
      [] v.t = "int" -> <<ToString(v.n)>>
      [] v.t = "str" -> v.s
      [] v.t = "bool" -> <<IF v.b THEN "True" ELSE "False">>
      [] OTHER -> <<"None">>

\* what the claim says one (key, value) contributes
C2_Segment(kv) ==
    CASE kv.value.t = "none" -> <<>>
      [] kv.value.t = "bool" -> IF kv.value.b THEN <<C2_Flag(kv.key)>> ELSE <<>>
      [] kv.value.t = "list" ->
            [i \in 1..(2 * Len(kv.value.items)) |->
                IF i % 2 = 1 THEN C2_Flag(kv.key)
                ELSE C2_Text(kv.value.items[i \div 2])]
      [] OTHER -> <<C2_Flag(kv.key), C2_Text(kv.value)>>

RECURSIVE C2_Segments(_, _)
C2_Segments(params, n) ==
    IF n = 0 THEN <<>> ELSE C2_Segments(params, n - 1) \o C2_Segment(params[n])

\* C2: _build_command returns [fgbio_command, tool_name] followed, in key
\* order, by nothing for None and false, the bare flag for true, one
\* (flag, str(item)) pair per list element, and one (flag, str(value)) pair
\* for any other value, the integers 0 and 1 included; the same holds of the
\* command built so far after each key.
C2_BuildCommandByRule ==
    bld.pc \in {"loop", "returned"} =>
        /\ bld.cmd = <<FgbioCommand, bld.tool>> \o C2_Segments(bld.params, bld.i)
        /\ bld.pc = "returned" =>
              /\ bld.i = Len(bld.params)
              /\ bld.cmd = BuildCommand(bld.tool, bld.params)

\* a returned command for a mapping that holds the integer 1 and a list of
\* two elements
C2_Witness ==
    /\ bld.pc = "returned"
    /\ \E i \in 1..Len(bld.params) : bld.params[i].value = VInt(1)
    /\ \E i \in 1..Len(bld.params) :
          bld.params[i].value.t = "list" /\ Len(bld.params[i].value.items) = 2

\* the response echoes the request
C3_Echoes(c) ==
    LET r == th[c].out.resp
        q == th[c].req
    IN  /\ r.input_file = q.input_bam
        /\ r.output_file = q.output_bam
        /\ th[c].op = "sort_bam" => r.sort_order = q.sort_order
        /\ th[c].op = "filter_bam" =>
              r.rejects_file = q.rejects /\ r.intervals_file = q.intervals

\* one of the failures the claim lists happened in the call
C3_Failed(c) ==
    \/ ~th[c].wrapper
    \/ th[c].op = "filter_bam"
    \/ ~SortPathCheck(fs, th[c].req).ok
    \/ th[c].proc.kind \in {"timeout", "spawn_error"}
    \/ th[c].proc.kind = "exit" /\ th[c].proc.rc # 0
    \/ th[c].proc.kind = "exit" /\ ~PathExists(fs, th[c].req.output_bam)

\* C3: once a handler is entered no exception escapes it, and every failure
\* is answered success=false with a non-empty message and the request's
\* input_file, output_file (and sort_order, or rejects_file and
\* intervals_file) echoed.
C3_NoExceptionEscapes ==
    \A c \in Callers :
        /\ InHandler(c) => ~th[c].out.raised
        /\ Done(c) =>
              /\ C3_Failed(c) => ~th[c].out.resp.success
              /\ ~th[c].out.resp.success =>
                    Len(th[c].out.resp.message) > 0 /\ C3_Echoes(c)

\* a filter_bam call that got the wrapper and met the unforeseen exception
C3_Witness ==
    \E c \in Callers :
        /\ Done(c)
        /\ th[c].op = "filter_bam"
        /\ th[c].wrapper
        /\ ~th[c].out.resp.success

\* C4: a sort_bam call whose input does not exist is answered success=false
\* with a message naming the input, and spawns no process, whatever the
\* handle was when it started; likewise a call whose output's parent is
\* missing spawns none.
C4_MissingInputSpawnsNothing ==
    \A c \in Callers :
        (Done(c) /\ th[c].op = "sort_bam") =>
            /\ ~PathExists(fs, th[c].req.input_bam) =>
                  /\ Answered(c)
                  /\ ~th[c].out.resp.success
                  /\ Contains(th[c].out.resp.message, th[c].req.input_bam)
                  /\ th[c].vq + th[c].tp = 0
            /\ ~PathExists(fs, Parent(th[c].req.output_bam)) =>
                  /\ Answered(c)
                  /\ ~th[c].out.resp.success
                  /\ th[c].vq + th[c].tp = 0

\* C5: a sort_bam call whose tool exits 0 without writing the destination
\* is answered success=false, whatever was at the destination before.
C5_ExitZeroWithoutOutputFails ==
    \A c \in Callers :
        (/\ Done(c)
         /\ th[c].op = "sort_bam"
         /\ th[c].proc.kind = "exit"
         /\ th[c].proc.rc = 0
         /\ ~th[c].proc.wrote)
        => /\ ~th[c].out.resp.success
           /\ Contains(th[c].out.resp.message, OutputNotCreated.msg)

\* a given optional path is blank, a given optional bound is not positive
C6_Blank(o) == o.some /\ Len(Strip(o.v)) = 0
C6_NotPositive(o) == o.some /\ o.v <= 0

\* the request is malformed in one of the ways the claim lists
C6_Malformed(op, r) ==
    \/ Len(Strip(r.input_bam)) = 0
    \/ Len(Strip(r.output_bam)) = 0
    \/ op = "sort_bam" /\ (C6_Blank(r.temp_dir) \/ C6_NotPositive(r.max_records_in_ram))
    \/ op = "filter_bam" /\
          \/ C6_Blank(r.rejects)
          \/ C6_Blank(r.intervals)
          \/ r.min_map_q < 0
          \/ C6_NotPositive(r.min_insert_size)
          \/ C6_NotPositive(r.max_insert_size)
          \/ C6_NotPositive(r.min_mapped_bases)
          \/ /\ r.min_insert_size.some
             /\ r.max_insert_size.some
             /\ r.max_insert_size.v <= r.min_insert_size.v

C7_AtMostOneAvailabilityCheck == versionSpawns <= 1

\* C8: _validate_file_path(p, must_exist=True) fails, with a message, if and
\* only if p is absent or not a regular file (a directory fails, whatever its
\* parent); the filesystem is as it was before the call.
C8_MustExistFailsIffNotRegularFile ==
    (vcall.done /\ vcall.must_exist) =>
        /\ ~vcall.ok <=> KindOf(vcall.before, vcall.path) \in {"absent", "dir", "other"}
        /\ ~vcall.ok => Len(vcall.err) > 0
        /\ fs = vcall.before

\* an existing directory was validated with must_exist=True and failed
C8_Witness ==
    /\ vcall.done
    /\ vcall.must_exist
    /\ KindOf(vcall.before, vcall.path) = "dir"
    /\ ~vcall.ok

C10_Params(c) ==
    SortParams(th[c].req.input_bam, th[c].req.output_bam, th[c].req.sort_order,
               th[c].req.temp_dir, th[c].req.max_records_in_ram)

\* C10 as claimed: run_command ends in one of three ways, each after its one
\* process terminated or timed out.
C10_ExactlyThreeOutcomes ==
    \A c \in Callers :
        (InHandler(c) /\ th[c].proc.kind # "none") =>
            /\ th[c].tp = 1
            /\ th[c].proc.kind \in {"exit", "timeout"}

\* C10 as amended: run_command ends in one of four ways.  After its process
\* exited 0 it returns success=true, return_code=0, the captured streams and
\* the shell-quoted command; after a non-zero exit it raises FgbioError
\* "Failed to execute fgbio <tool>: fgbio <tool> failed with return code <rc>:
\* <stderr>"; after a timeout it raises FgbioError "... timed out after 1 hour",
\* which does not carry the "Failed to execute" text; when subprocess.run
\* itself raises, no process ran and FgbioError "Failed to execute fgbio
\* <tool>: <error>" is raised.  A call spawns at most one process and nothing
\* is decided while the process runs.
C10_RunCommandOutcomes ==
    \A c \in Callers :
        /\ InHandler(c) => th[c].tp <= 1
        /\ th[c].pc = "running" =>
              th[c].tp = 1 /\ th[c].proc.kind = "none" /\ th[c].out = Pending
        /\ (InHandler(c) /\ th[c].proc.kind # "none") =>
              LET pr == th[c].proc
                  r == th[c].run
              IN  /\ pr.kind \in {"exit", "timeout", "spawn_error"}
                  /\ pr.kind = "spawn_error" <=> th[c].tp = 0
                  /\ (pr.kind = "exit" /\ pr.rc = 0) =>
                        /\ r.ok
                        /\ r.result.success
                        /\ r.result.return_code = 0
                        /\ r.result.stdout = pr.stdout
                        /\ r.result.stderr = pr.stderr
                        /\ r.result.command =
                              JoinQuoted(BuildCommand(SortTool, C10_Params(c)))
                        /\ th[c].req.temp_dir = Some(<<"my", " ", "tmp">>) =>
                              Contains(r.result.command,
                                       <<" ", "'", "my", " ", "tmp", "'">>)
                  /\ (pr.kind = "exit" /\ pr.rc # 0) =>
                        /\ ~r.ok
                        /\ r.exc.type = "FgbioError"
                        /\ Contains(r.exc.msg, <<"failed with return code", " ",
                                                 ToString(pr.rc), ": ">>
                                               \o pr.stderr)
                  /\ pr.kind = "timeout" =>
                        /\ ~r.ok
                        /\ r.exc.type = "FgbioError"
                        /\ Contains(r.exc.msg, <<"command timed out after 1 hour">>)
                        /\ ~Contains(r.exc.msg, <<"Failed to execute fgbio">>)
                  /\ pr.kind = "spawn_error" =>
                        /\ ~r.ok
                        /\ r.exc.type = "FgbioError"
                        /\ Contains(r.exc.msg, <<"Failed to execute fgbio">>)
                        /\ Contains(r.exc.msg, pr.stderr)

\* a SortBam process exited with code 2 and the call was answered
C10_Witness ==
    \E c \in Callers :
        /\ Done(c)
        /\ th[c].proc.kind = "exit"
        /\ th[c].proc.rc = 2
        /\ ~th[c].out.resp.success

\* C11: the availability check succeeds if and only if the version query
\* ran within the timeout and its output holds the marker "Version:",
\* whatever the exit code; a missing executable, a timeout and output without
\* the marker each fail with FgbioError.
C11_AvailableIffMarkerInOutput ==
    acall.pc = "returned" =>
        LET o == acall.outcome
            marked == Contains(o.stdout, VersionMarker) \/ Contains(o.stderr, VersionMarker)
        IN  /\ acall.ok <=> (o.kind = "ran" /\ marked)
            /\ (o.kind \in {"missing", "timeout"} \/ (o.kind = "ran" /\ ~marked)) =>
                  acall.exc.type = "FgbioError"

\* the request is well-formed in everything but the order of its insert sizes
C12_OtherwiseValid(r) ==
    /\ FilterRequestValid([r EXCEPT !.max_insert_size = NoneInt])
    /\ r.max_insert_size.some => r.max_insert_size.v > 0

C12_Both(r) == r.min_insert_size.some /\ r.max_insert_size.some

\* C12: a filter request giving both insert sizes is refused if and only if
\* max_insert_size <= min_insert_size (500/500 refused, 200/800 accepted); a
\* request giving one or neither is never refused for the ordering.
C12_InsertSizeOrdering ==
    \A c \in Callers :
        (th[c].op = "filter_bam" /\ th[c].pc # "idle") =>
            LET r == th[c].req
            IN  /\ (C12_Both(r) /\ C12_OtherwiseValid(r)) =>
                      (th[c].pc = "rejected"
                          <=> r.max_insert_size.v <= r.min_insert_size.v)
                /\ (~C12_Both(r) /\ C12_OtherwiseValid(r)) => th[c].pc # "rejected"
                /\ (InHandler(c) /\ C12_Both(r)) =>
                      r.max_insert_size.v > r.min_insert_size.v

\* 500/500 was refused and 200/800 is inside the handler
C12_Witness ==
    \E c, d \in Callers :
        /\ th[c].op = "filter_bam" /\ th[c].pc = "rejected"
        /\ th[c].req.min_insert_size = Some(500)
        /\ th[c].req.max_insert_size = Some(500)
        /\ th[d].op = "filter_bam" /\ InHandler(d)
        /\ th[d].req.min_insert_size = Some(200)
        /\ th[d].req.max_insert_size = Some(800)

\* the keys and values the claim prescribes for a request
C13_Expected(req) ==
    {Param(Str("input"), VStr(req.input_bam)),
     Param(Str("output"), VStr(req.output_bam)),
     Param(<<"sort", "_", "order">>, VStr(req.sort_order))}
    \cup (IF req.temp_dir.some
          THEN {Param(<<"tmp", "_", "dir">>, VStr(req.temp_dir.v))} ELSE {})
    \cup (IF req.max_records_in_ram.some
          THEN {Param(<<"max", "_", "records", "_", "in", "_", "ram">>,
                      VInt(req.max_records_in_ram.v))}
          ELSE {})

\* run_command was called for the sort request of c
C13_Handed(c) ==
    /\ th[c].op = "sort_bam"
    /\ th[c].pc \in {"running", "exited"} \/ th[c].tp > 0 \/ th[c].proc.kind # "none"

\* C13: the parameters handed to run_command('SortBam', ...) are exactly
\* input, output and sort_order with the request's values, tmp_dir if and only
\* if a temp directory was given and max_records_in_ram if and only if the
\* bound was given, each key once and no other key; they are handed only
\* after both path validations passed.
C13_SortParamsExact ==
    \A c \in Callers :
        /\ C13_Handed(c) =>
              /\ {th[c].params[i] : i \in DOMAIN th[c].params} = C13_Expected(th[c].req)
              /\ Len(th[c].params) = Cardinality(C13_Expected(th[c].req))
        /\ (th[c].op = "sort_bam" /\ th[c].pc \in {"running", "exited"}) =>
              /\ PathIsFile(fs, th[c].req.input_bam)
              /\ PathExists(fs, Parent(th[c].req.output_bam))

\* a queryname sort with a temp directory and a record bound is running
C13_Witness ==
    \E c \in Callers :
        /\ th[c].op = "sort_bam" /\ th[c].pc = "running"
        /\ th[c].req.sort_order = Str("queryname")
        /\ th[c].req.temp_dir.some
        /\ th[c].req.max_records_in_ram.some
        /\ Len(th[c].params) = Cardinality(C13_Expected(th[c].req))
        /\ Param(<<"sort", "_", "order">>, VStr(Str("queryname")))
              \in {th[c].params[i] : i \in DOMAIN th[c].params}

C14_RecordsKey == <<"max", "_", "records", "_", "in", "_", "ram">>

\* C14: a sort request with a non-positive max_records_in_ram is refused
\* before any process is spawned: neither a version query nor a SortBam
\* process is started for it, no parameters are assembled for it, and no
\* assembled parameters ever carry a non-positive max_records_in_ram.
C14_NonPositiveBoundRefusedFirst ==
    \A c \in Callers :
        /\ (/\ th[c].op = "sort_bam"
            /\ th[c].pc # "idle"
            /\ th[c].req.max_records_in_ram.some
            /\ th[c].req.max_records_in_ram.v <= 0)
           => /\ th[c].pc = "rejected"
              /\ th[c].out.raised
              /\ th[c].vq = 0
              /\ th[c].tp = 0
              /\ th[c].proc.kind = "none"
              /\ th[c].params = <<>>
        /\ \A i \in DOMAIN th[c].params :
              th[c].params[i].key = C14_RecordsKey => th[c].params[i].value.n > 0

\* a sort request with max_records_in_ram=0 was refused
C14_Witness ==
    \E c \in Callers :
        /\ th[c].op = "sort_bam"
        /\ th[c].pc = "rejected"
        /\ th[c].req.max_records_in_ram = Some(0)

C16_SuccessMeansRanAndWritten ==
    \A c \in Callers :
        Answered(c) =>
            LET resp == th[c].out.resp
                req == th[c].req
            IN  /\ resp.success =>
                      /\ handle = "set"
                      /\ th[c].wrapper
                      /\ PathIsFile(fs, req.input_bam)
                      /\ PathExists(fs, Parent(req.output_bam))
                      /\ th[c].tp = 1
                      /\ th[c].proc.kind = "exit"
                      /\ th[c].proc.rc = 0
                      /\ PathExists(fs, req.output_bam)
                /\ ~resp.success =>
                      /\ resp.command_executed = None
                      /\ resp.stdout = None
                      /\ resp.stderr = None
                      /\ th[c].op = "filter_bam" => resp.filters_applied = <<>>

\* one sort was answered success=true, another success=false after its tool
\* process exited non-zero
C16_Witness ==
    \E c, d \in Callers :
        /\ Answered(c) /\ th[c].out.resp.success
        /\ Answered(d) /\ ~th[d].out.resp.success
        /\ th[d].proc.kind = "exit" /\ th[d].proc.rc # 0

=============================================================================
